---- MODULE Spec2Model ----
(***************************************************************************)
(* A model of the epidemiology glossary bot (src/index.js).                *)
(*                                                                         *)
(* src/index.js holds three revisions of the two handlers of the bot:      *)
(*   "db"     lines   1-123  terms in SQLite, queried with LIKE, replies   *)
(*                           handed straight to bot.sendMessage;           *)
(*   "direct" lines 271-370  terms in the KNOWLEDGE_BASE object, replies   *)
(*                           handed straight to bot.sendMessage;           *)
(*   "safe"   lines 372-509  terms in the KNOWLEDGE_BASE object, replies   *)
(*            (and 125-270)  awaited through sendTelegramMessageSafely.    *)
(* The variable `variant' says which revision is deployed.                 *)
(*                                                                         *)
(* Texts are TLA+ strings, that is sequences of characters: Len, \o and    *)
(* SubSeq act on them as String.length, + and substring do in JavaScript.  *)
(***************************************************************************)
EXTENDS Integers, Sequences, FiniteSets, TLC

(***************************************************************************)
(* Characters                                                              *)
(***************************************************************************)

\* The printable ASCII characters in code order, in three runs (the double
\* quote, 34, and the back quote, 96, are left out).
AsciiFrom32 == " !"

AsciiFrom35 == "#$%&'()*+,-./0123456789:;<=>?@ABCDEFGHIJKLMNOPQRSTUVWXYZ[\\]^_"

AsciiFrom97 == "abcdefghijklmnopqrstuvwxyz{|}~"

UpperCaseLetters == "ABCDEFGHIJKLMNOPQRSTUVWXYZ"

LowerCaseLetters == "abcdefghijklmnopqrstuvwxyz"

Digits == "0123456789"

CharAt(s, i) == SubSeq(s, i, i)

CharsOf(s) == { CharAt(s, i) : i \in 1..Len(s) }

IndexIn(run, c) == CHOOSE i \in 1..Len(run) : SubSeq(run, i, i) = c

\* The UTF-16 code unit of a printable ASCII character (others sort last).
CharCode(c) ==
  IF c \in CharsOf(AsciiFrom32) THEN 31 + IndexIn(AsciiFrom32, c)
  ELSE IF c \in CharsOf(AsciiFrom35) THEN 34 + IndexIn(AsciiFrom35, c)
  ELSE IF c \in CharsOf(AsciiFrom97) THEN 96 + IndexIn(AsciiFrom97, c)
  ELSE 127

\* \s of a JavaScript regular expression, and what String.trim removes.
IsSpaceChar(c) == c \in {" ", "\t", "\n", "\r", "\f"}

\* \w of a JavaScript regular expression: [A-Za-z0-9_].
IsWordChar(c) ==
  c \in CharsOf(UpperCaseLetters) \cup CharsOf(LowerCaseLetters)
        \cup CharsOf(Digits) \cup {"_"}

ToLowerChar(c) ==
  IF c \in CharsOf(UpperCaseLetters)
  THEN CharAt(LowerCaseLetters, IndexIn(UpperCaseLetters, c))
  ELSE c

(***************************************************************************)
(* Strings                                                                 *)
(***************************************************************************)

\* String.prototype.toLowerCase, character by character.
RECURSIVE ToLowerCase(_)
ToLowerCase(s) ==
  IF Len(s) = 0 THEN ""
  ELSE IF Len(s) = 1 THEN ToLowerChar(s)
  ELSE LET h == Len(s) \div 2
       IN  ToLowerCase(SubSeq(s, 1, h)) \o ToLowerCase(SubSeq(s, h + 1, Len(s)))

\* String.prototype.includes: w occurs in s at some offset ("" occurs in
\* every string).
Includes(s, w) ==
  \E i \in 1..(Len(s) - Len(w) + 1) : SubSeq(s, i, i + Len(w) - 1) = w

\* String.prototype.startsWith.
StartsWith(s, p) == Len(s) >= Len(p) /\ SubSeq(s, 1, Len(p)) = p

\* String.prototype.trim: white space removed from both ends.
RECURSIVE TrimStart(_)
TrimStart(s) ==
  IF Len(s) > 0 /\ IsSpaceChar(CharAt(s, 1))
  THEN TrimStart(SubSeq(s, 2, Len(s)))
  ELSE s

RECURSIVE TrimEnd(_)
TrimEnd(s) ==
  IF Len(s) > 0 /\ IsSpaceChar(CharAt(s, Len(s)))
  THEN TrimEnd(SubSeq(s, 1, Len(s) - 1))
  ELSE s

Trim(s) == TrimEnd(TrimStart(s))

\* s.replace(/[^\w\s]/g, ''): every character that is neither a word
\* character nor white space is removed.
RECURSIVE StripNonWord(_)
StripNonWord(s) ==
  IF Len(s) = 0 THEN ""
  ELSE LET c == CharAt(s, 1)
       IN  (IF IsWordChar(c) \/ IsSpaceChar(c) THEN c ELSE "")
             \o StripNonWord(SubSeq(s, 2, Len(s)))

\* s.split(/\s+/): the pieces between the runs of white space; a run at an
\* end of s leaves an empty piece there, and "" splits into <<"">>.
RECURSIVE SplitFrom(_, _)
SplitFrom(s, piece) ==
  IF Len(s) = 0 THEN <<piece>>
  ELSE IF IsSpaceChar(CharAt(s, 1))
       THEN <<piece>> \o SplitFrom(TrimStart(s), "")
       ELSE SplitFrom(SubSeq(s, 2, Len(s)), piece \o CharAt(s, 1))

SplitWhitespace(s) == SplitFrom(s, "")

\* array.filter(Boolean) on strings: the empty strings are dropped.
FilterBoolean(seq) == SelectSeq(seq, LAMBDA t : t # "")

\* array.join(sep).
RECURSIVE Join(_, _)
Join(seq, sep) ==
  IF Len(seq) = 0 THEN ""
  ELSE IF Len(seq) = 1 THEN seq[1]
  ELSE seq[1] \o sep \o Join(Tail(seq), sep)

\* array.slice(0, n).
SliceFirst(seq, n) == SubSeq(seq, 1, IF Len(seq) < n THEN Len(seq) ELSE n)

\* The smaller and the larger of two numbers (Math.min, Math.max).
Min(a, b) == IF a < b THEN a ELSE b

\* n copies of s, one after the other.
RECURSIVE Repeat(_, _)
Repeat(s, n) ==
  IF n = 0 THEN ""
  ELSE LET h == Repeat(s, n \div 2)
       IN  IF n % 2 = 0 THEN h \o h ELSE h \o h \o s

(***************************************************************************)
(* Program constants                                                       *)
(***************************************************************************)

\* const MAX_MESSAGE_LENGTH = 4096 of sendTelegramMessageSafely.
MAX_MESSAGE_LENGTH == 4096

\* The 5 of slice(0, 5) and of LIMIT 5.
MAX_RESULTS == 5

PROVIDE_KEYWORDS == "Please provide some keywords to search for."

NO_INFORMATION ==
  "I'm sorry, I don't have information on that topic. Please try asking about one of the keywords mentioned in /help."

DB_TROUBLE == "Sorry, I'm having trouble accessing my knowledge base."

\* The welcome text around ${userName} and ${availableTopics}.  The source
\* holds four characters after "! " and three before the topics that are not
\* ASCII; "^" stands for each of them here.
WELCOME_HEAD == "Hello, "

WELCOME_BODY ==
  "! ^^^^\n\nI am a bot with knowledge from a glossary of epidemiology terms.\n\nYou can ask me to define any of the following topics:\n^^^ "

WelcomeMessage(userName, availableTopics) ==
  WELCOME_HEAD \o userName \o WELCOME_BODY \o availableTopics

(***************************************************************************)
(* The knowledge bases the model is run on.  A knowledge base is the       *)
(* sequence of the (term, definition) pairs of knowledgeBase.js in the     *)
(* order Object.keys and for-in visit them; setupDatabase.js inserts them  *)
(* into the table `terms' in that order.                                   *)
(***************************************************************************)

Entry(t, d) == [term |-> t, definition |-> d]

KB_EMPTY == << >>

KB_PAIR == << Entry("A", "B"), Entry("aa", "a b") >>

\* Six terms that all contain "a"; the term "a" itself comes last.
KB_SIX ==
  << Entry("ab", "a"), Entry("Ba", "b"), Entry("bab", "a b"),
     Entry("aAb", "A?"), Entry("abba", "b_"), Entry("a", "ab") >>

\* A text of n code units in which no two places less than 7 apart, and no
\* two places a multiple of the limit apart, start the same way.
LongText(n) == SubSeq(Repeat("xyz0123", n \div 7 + 1), 1, n)

\* Definitions around the message limit: limit + 1, 2 * limit,
\* 2 * limit + 1 and limit code units; and a term so long that the welcome
\* text exceeds the limit.
KB_LONG ==
  << Entry("a", LongText(MAX_MESSAGE_LENGTH + 1)),
     Entry("b", LongText(2 * MAX_MESSAGE_LENGTH)),
     Entry("ab", LongText(2 * MAX_MESSAGE_LENGTH + 1)),
     Entry("ba", LongText(MAX_MESSAGE_LENGTH)),
     Entry("B" \o Repeat("b", 3999), "b") >>

KnowledgeBases == << KB_EMPTY, KB_PAIR, KB_SIX, KB_LONG >>

ShortKBs == {1, 2, 3}

LongKBs == {4}

\* keyword.toLowerCase() and definition.toLowerCase() of every entry,
\* computed once.
KnowledgeBasesLower ==
  [k \in DOMAIN KnowledgeBases |->
     [i \in DOMAIN KnowledgeBases[k] |->
        Entry(ToLowerCase(KnowledgeBases[k][i].term),
              ToLowerCase(KnowledgeBases[k][i].definition))]]

\* Object.keys(KNOWLEDGE_BASE): the keywords, here their positions.
Keys(k) == [i \in 1..Len(KnowledgeBases[k]) |-> i]

Term(k, i) == KnowledgeBases[k][i].term

Definition(k, i) == KnowledgeBases[k][i].definition

(***************************************************************************)
(* The Matcher of the revisions that hold the terms in KNOWLEDGE_BASE      *)
(***************************************************************************)

\* msg.text.trim().toLowerCase()
NormalizeMessage(text) == ToLowerCase(Trim(text))

\* Object.keys(KNOWLEDGE_BASE).filter(keyword =>
\*     keyword.toLowerCase().includes(userMessage))
TermMatches(k, userMessage) ==
  SelectSeq(Keys(k), LAMBDA i : Includes(KnowledgeBasesLower[k][i].term, userMessage))

\* userMessage.replace(/[^\w\s]/g, '').split(/\s+/).filter(Boolean)
SearchWords(userMessage) ==
  FilterBoolean(SplitWhitespace(StripNonWord(userMessage)))

\* searchWords.filter(word => definition.toLowerCase().includes(word)).length
Score(k, i, searchWords) ==
  Len(SelectSeq(searchWords,
                LAMBDA word : Includes(KnowledgeBasesLower[k][i].definition, word)))

\* The for-in loop that pushes { keyword, score } for every score > 0.
RECURSIVE DefinitionMatchesFrom(_, _, _)
DefinitionMatchesFrom(k, i, searchWords) ==
  IF i > Len(KnowledgeBases[k]) THEN << >>
  ELSE (IF Score(k, i, searchWords) > 0
        THEN << [keyword |-> i, score |-> Score(k, i, searchWords)] >>
        ELSE << >>)
       \o DefinitionMatchesFrom(k, i + 1, searchWords)

DefinitionMatches(k, searchWords) == DefinitionMatchesFrom(k, 1, searchWords)

\* matches.sort((a, b) => b.score - a.score): Array.prototype.sort is
\* stable; an insertion sort that puts each match after the matches already
\* placed whose score is not lower.
RECURSIVE InsertByScore(_, _)
InsertByScore(sorted, m) ==
  IF Len(sorted) = 0 THEN << m >>
  ELSE IF Head(sorted).score - m.score < 0
       THEN << m >> \o sorted
       ELSE << Head(sorted) >> \o InsertByScore(Tail(sorted), m)

RECURSIVE SortByScoreFrom(_, _)
SortByScoreFrom(sorted, rest) ==
  IF Len(rest) = 0 THEN sorted
  ELSE SortByScoreFrom(InsertByScore(sorted, Head(rest)), Tail(rest))

SortByScore(matches) == SortByScoreFrom(<< >>, matches)

(***************************************************************************)
(* The Matcher of the revision that holds the terms in SQLite              *)
(***************************************************************************)

\* The LIKE operator of SQLite: "%" matches any run of characters, "_" any
\* one character, and ASCII letters match whatever their case.
RECURSIVE LikeFrom(_, _, _, _)
LikeFrom(text, i, pattern, j) ==
  IF j > Len(pattern) THEN i > Len(text)
  ELSE IF CharAt(pattern, j) = "%"
       THEN \/ j = Len(pattern)
            \/ \E i2 \in i..(Len(text) + 1) : LikeFrom(text, i2, pattern, j + 1)
       ELSE /\ i <= Len(text)
            /\ \/ CharAt(pattern, j) = "_"
               \/ ToLowerChar(CharAt(pattern, j)) = ToLowerChar(CharAt(text, i))
            /\ LikeFrom(text, i + 1, pattern, j + 1)

\* text LIKE pattern
Like(text, pattern) == LikeFrom(text, 1, pattern, 1)

\* The parameter `%${x}%` of both queries.
LikeParam(x) == "%" \o x \o "%"

\* WHERE LOWER(term) LIKE ?
TermQueryWhere(k, userMessageLower) ==
  { i \in 1..Len(KnowledgeBases[k]) :
      Like(KnowledgeBasesLower[k][i].term, LikeParam(userMessageLower)) }

\* ORDER BY LENGTH(term) ASC LIMIT n: every sequence of n rows in which no
\* row is longer than a later row or than a row left out (SQL leaves the
\* order of rows of equal length open).
RECURSIVE OrderByLengthLimit(_, _, _)
OrderByLengthLimit(k, rows, n) ==
  IF n = 0 \/ rows = {} THEN { << >> }
  ELSE LET shortest == { i \in rows : \A j \in rows : Len(Term(k, i)) <= Len(Term(k, j)) }
       IN  UNION { { << i >> \o rest : rest \in OrderByLengthLimit(k, rows \ {i}, n - 1) }
                   : i \in shortest }

\* The results db.all can hand to the callback of termQuery.
TermQueryRows(k, userMessageLower) ==
  OrderByLengthLimit(k, TermQueryWhere(k, userMessageLower), MAX_RESULTS)

\* WHERE LOWER(definition) LIKE ? AND ... (one LIKE per search word)
\* LIMIT 5, the table read in rowid order.
DefinitionQueryRows(k, searchWords) ==
  SliceFirst(
    SelectSeq(Keys(k),
              LAMBDA i : \A w \in 1..Len(searchWords) :
                 Like(KnowledgeBasesLower[k][i].definition, LikeParam(searchWords[w]))),
    MAX_RESULTS)

\* "SELECT term FROM terms ORDER BY term ASC", and Object.keys(...).sort():
\* both compare the terms code unit by code unit.
RECURSIVE TermLess(_, _)
TermLess(a, b) ==
  IF Len(b) = 0 THEN FALSE
  ELSE IF Len(a) = 0 THEN TRUE
  ELSE IF CharCode(CharAt(a, 1)) # CharCode(CharAt(b, 1))
       THEN CharCode(CharAt(a, 1)) < CharCode(CharAt(b, 1))
       ELSE TermLess(SubSeq(a, 2, Len(a)), SubSeq(b, 2, Len(b)))

RECURSIVE InsertTerm(_, _)
InsertTerm(sorted, t) ==
  IF Len(sorted) = 0 THEN << t >>
  ELSE IF TermLess(t, Head(sorted)) THEN << t >> \o sorted
       ELSE << Head(sorted) >> \o InsertTerm(Tail(sorted), t)

RECURSIVE SortedTermsFrom(_, _, _)
SortedTermsFrom(k, i, sorted) ==
  IF i > Len(KnowledgeBases[k]) THEN sorted
  ELSE SortedTermsFrom(k, i + 1, InsertTerm(sorted, Term(k, i)))

SortedTerms(k) == SortedTermsFrom(k, 1, << >>)

\* rows.map(row => row.term).join(', ') and Object.keys(...).sort().join(', ')
AvailableTopics(k) == Join(SortedTerms(k), ", ")

(***************************************************************************)
(* Bounds and inputs                                                       *)
(***************************************************************************)

\* The longest message text drawn from the alphabet.
MaxMsgLen == 3

\* The number of inbound messages handled side by side.
NumEvents == 2

Events == 1..NumEvents

\* The characters the texts are drawn from: two letters, a blank and a
\* punctuation mark that is a wildcard of LIKE too.
Alphabet == {"a", "b", " ", "%"}

RECURSIVE Texts(_)
Texts(n) ==
  IF n = 0 THEN {""}
  ELSE Texts(n - 1) \cup { t \o c : t \in { u \in Texts(n - 1) : Len(u) = n - 1 },
                                    c \in Alphabet }

\* Texts with capitals, with other punctuation and with "_", which is a
\* word character and a wildcard of LIKE; and one text that repeats a token.
OtherTexts ==
  {"A", " Ab ", "B b", "?", "???", "a?", "? a", "a?b", "_", "a_", "_ b", "b_?",
   "a a b"}

\* The commands, at the start of the text and inside it, and texts with the
\* command prefix.
CommandTexts == {"/help", "/start", "/a", "/", "a /help", " /start", " /", "a/b"}

Messages == Texts(MaxMsgLen) \cup OtherTexts \cup CommandTexts

\* The texts sent to the knowledge base of long definitions.
LongTexts == {"a", "b", "bb", "z?", "?", "/help", " /start", "_"}

\* The texts of the events that are handled side by side.
ConcurrentTexts == {"a", "b b", "?", "/help"}

\* msg.from.first_name
FirstNames == {"Al"}

Variants == {"db", "direct", "safe"}

(***************************************************************************)
(* State                                                                   *)
(***************************************************************************)

VARIABLES
  variant,   \* the revision of index.js that runs
  kb,        \* the knowledge base loaded at start, an index of KnowledgeBases
  inbox,     \* inbox[e]: the inbound message of event e, or NoMessage
  onMessage, \* onMessage[e]: the activation of bot.on('message') for e
  onText,    \* onText[e]: the activation of bot.onText(/\/start|\/help/) for e
  sent,      \* sent[e]: the calls of bot.sendMessage made for e, in call order
  logged     \* logged[e]: what console.error printed for e

vars == << variant, kb, inbox, onMessage, onText, sent, logged >>

NoMessage == [text |-> "", first_name |-> "", arrived |-> FALSE]

\* An activation of bot.on('message') with its local variables.
IdleOnMessage ==
  [pc |-> "idle", userMessage |-> "", phase |-> "none",
   termMatches |-> << >>, searchWords |-> << >>, definitionMatches |-> << >>,
   batch |-> << >>, i |-> 0, startIndex |-> 0]

\* An activation of bot.onText(/\/start|\/help/).
IdleOnText == [pc |-> "idle", batch |-> << >>, i |-> 0, startIndex |-> 0]

\* One call of bot.sendMessage(chatId, text, options).
SendCall(by, payload, offset, text) ==
  [by |-> by, payload |-> payload, offset |-> offset, text |-> text,
   status |-> "inflight"]

(***************************************************************************)
(* sendTelegramMessageSafely                                               *)
(***************************************************************************)

\* const endIndex = Math.min(startIndex + MAX_MESSAGE_LENGTH, text.length)
EndIndex(text, startIndex) ==
  Min(startIndex + MAX_MESSAGE_LENGTH, Len(text))

\* A chunk cut one code unit late: text.substring(startIndex + 1, endIndex).
Chunk_OneLate(text, startIndex) ==
  SubSeq(text, startIndex + 2, Min(startIndex + MAX_MESSAGE_LENGTH, Len(text)))

\* const chunk = text.substring(startIndex, endIndex)
Chunk(text, startIndex) ==
  SubSeq(text, startIndex + 1, EndIndex(text, startIndex))

\* if (text.length <= MAX_MESSAGE_LENGTH): the text goes out whole.
FitsOneMessage(text) == Len(text) <= MAX_MESSAGE_LENGTH

\* The text of the call of botInstance.sendMessage that activation t awaits.
PendingText(t) ==
  IF FitsOneMessage(t.batch[t.i]) THEN t.batch[t.i]
  ELSE Chunk(t.batch[t.i], t.startIndex)

\* The activation calls sendTelegramMessageSafely(chatId, batch[i], ...).
StartPayload(t, i) ==
  [t EXCEPT !.pc = "awaitSend", !.i = i, !.startIndex = 0]

\* The awaited send resolved: startIndex = endIndex and the while loop goes
\* on, or sendTelegramMessageSafely returns and the caller goes on with its
\* next payload, or ends.
AfterSendResolved(t) ==
  LET text == t.batch[t.i]
      endIndex == EndIndex(text, t.startIndex)
  IN  IF ~FitsOneMessage(text) /\ endIndex < Len(text)
      THEN [t EXCEPT !.startIndex = endIndex]
      ELSE IF t.i < Len(t.batch)
           THEN StartPayload(t, t.i + 1)
           ELSE [t EXCEPT !.pc = "done"]

\* The awaited send rejected: nothing catches it, the async handler ends
\* with a rejected promise.
AfterSendRejected(t) == [t EXCEPT !.pc = "rejected"]

\* The calls of bot.sendMessage an activation adds when it moves from t to u.
CallsOf(by, t) ==
  IF t.pc = "awaitSend"
  THEN << SendCall(by, t.i, t.startIndex, PendingText(t)) >>
  ELSE << >>

\* batch.forEach(x => bot.sendMessage(chatId, x, ...)): every call is made
\* at once, none is awaited.
ForEachSend(by, batch) ==
  [i \in 1..Len(batch) |-> SendCall(by, i, 0, batch[i])]

(***************************************************************************)
(* bot.on('message') and bot.onText(/\/start|\/help/)                      *)
(***************************************************************************)

\* The definitions of the first MAX_RESULTS keywords, in their order.
DefinitionsOf(k, keywords) ==
  [j \in 1..Len(SliceFirst(keywords, MAX_RESULTS)) |-> Definition(k, keywords[j])]

KeywordsOf(matches) == [j \in 1..Len(matches) |-> matches[j].keyword]

\* bot.on('message') without the `return' that ends the term branch: what
\* the keyword search finds is sent after the term matches.
RunMatcher_NoReturn(k, t, text) ==
  LET userMessage == NormalizeMessage(text)
      termMatches == TermMatches(k, userMessage)
      searchWords == SearchWords(userMessage)
      definitionMatches == DefinitionMatches(k, searchWords)
      u == [t EXCEPT !.userMessage = userMessage, !.termMatches = termMatches,
                     !.phase = IF Len(termMatches) > 0 THEN "term" ELSE "none",
                     !.batch = DefinitionsOf(k, termMatches)]
  IN  IF Len(searchWords) = 0
      THEN [u EXCEPT !.phase = "keywords", !.batch = @ \o << PROVIDE_KEYWORDS >>]
      ELSE IF Len(definitionMatches) > 0
      THEN [u EXCEPT !.phase = "definition", !.searchWords = searchWords,
                     !.definitionMatches = SortByScore(definitionMatches),
                     !.batch = @ \o DefinitionsOf(k, KeywordsOf(SortByScore(definitionMatches)))]
      ELSE [u EXCEPT !.phase = "nothing", !.searchWords = searchWords,
                     !.batch = @ \o << NO_INFORMATION >>]

\* The body of bot.on('message') of the KNOWLEDGE_BASE revisions from
\* `const userMessage' to the choice of what to send: the local variables
\* and the texts to send, in order.
RunMatcher(k, t, text) ==
  LET userMessage == NormalizeMessage(text)
      termMatches == TermMatches(k, userMessage)
      searchWords == SearchWords(userMessage)
      definitionMatches == DefinitionMatches(k, searchWords)
      u == [t EXCEPT !.userMessage = userMessage]
  IN  IF Len(termMatches) > 0
      THEN [u EXCEPT !.phase = "term", !.termMatches = termMatches,
                     !.batch = DefinitionsOf(k, termMatches)]
      ELSE IF Len(searchWords) = 0
      THEN [u EXCEPT !.phase = "keywords", !.batch = << PROVIDE_KEYWORDS >>]
      ELSE IF Len(definitionMatches) > 0
      THEN [u EXCEPT !.phase = "definition", !.searchWords = searchWords,
                     !.definitionMatches = SortByScore(definitionMatches),
                     !.batch = DefinitionsOf(k, KeywordsOf(SortByScore(definitionMatches)))]
      ELSE [u EXCEPT !.phase = "nothing", !.searchWords = searchWords,
                     !.batch = << NO_INFORMATION >>]

\* if (msg.text && msg.text.startsWith('/')) return;
IsCommand(text) == text # "" /\ StartsWith(text, "/")

\* The regular expression /\/start|\/help/ finds a match in the text.
MatchesStartOrHelp(text) == Includes(text, "/start") \/ Includes(text, "/help")

\* bot.on('message') up to its first await, its first callback or its end.
OnMessageBegin(v, k, text) ==
  IF IsCommand(text) THEN [IdleOnMessage EXCEPT !.pc = "ignored"]
  ELSE IF v = "db"
       THEN [IdleOnMessage EXCEPT !.pc = "termQuery", !.userMessage = NormalizeMessage(text)]
       ELSE IF v = "direct"
            THEN [RunMatcher(k, IdleOnMessage, text) EXCEPT !.pc = "done"]
            ELSE StartPayload(RunMatcher(k, IdleOnMessage, text), 1)

\* bot.onText(/\/start|\/help/) up to its first await, callback or end.
OnTextBegin(v, k, text, userName) ==
  IF ~MatchesStartOrHelp(text) THEN [IdleOnText EXCEPT !.pc = "unmatched"]
  ELSE IF v = "db" THEN [IdleOnText EXCEPT !.pc = "termsQuery"]
       ELSE LET t == [IdleOnText EXCEPT
                        !.batch = << WelcomeMessage(userName, AvailableTopics(k)) >>]
            IN  IF v = "direct" THEN [t EXCEPT !.pc = "done"] ELSE StartPayload(t, 1)

\* The calls of bot.sendMessage an activation has made when it first stops.
FirstCalls(v, by, t) ==
  IF v = "safe" THEN CallsOf(by, t)
  ELSE IF t.pc = "done" THEN ForEachSend(by, t.batch)
  ELSE << >>

\* bot.processUpdate: the 'message' listener runs, then the onText callback.
Deliver(e, text, userName) ==
  /\ ~inbox[e].arrived
  /\ inbox' = [inbox EXCEPT ![e] = [text |-> text, first_name |-> userName, arrived |-> TRUE]]
  /\ onMessage' = [onMessage EXCEPT ![e] = OnMessageBegin(variant, kb, text)]
  /\ onText' = [onText EXCEPT ![e] = OnTextBegin(variant, kb, text, userName)]
  /\ sent' = [sent EXCEPT ![e] = @ \o FirstCalls(variant, "message", onMessage'[e])
                                   \o FirstCalls(variant, "onText", onText'[e])]
  /\ UNCHANGED << variant, kb, logged >>

\* What db.all(termQuery, ...) can hand to its callback.
TermQueryOutcomes(k, userMessageLower) ==
  {[err |-> TRUE, rows |-> << >>]}
    \cup { [err |-> FALSE, rows |-> r] : r \in TermQueryRows(k, userMessageLower) }

\* The callback of db.all(termQuery, ...).
TermQueryCallback(e) ==
  /\ onMessage[e].pc = "termQuery"
  /\ \E o \in TermQueryOutcomes(kb, onMessage[e].userMessage) :
       LET t == onMessage[e]
           searchWords == SearchWords(t.userMessage)
       IN  IF o.err
           THEN /\ logged' = [logged EXCEPT ![e] = Append(@, "Term search error")]
                /\ onMessage' = [onMessage EXCEPT ![e] = [t EXCEPT !.pc = "done", !.phase = "error"]]
                /\ UNCHANGED sent
           ELSE IF Len(o.rows) > 0
           THEN /\ onMessage' = [onMessage EXCEPT ![e] =
                     [t EXCEPT !.pc = "done", !.phase = "term", !.termMatches = o.rows,
                               !.batch = DefinitionsOf(kb, o.rows)]]
                /\ sent' = [sent EXCEPT ![e] = @ \o ForEachSend("message", DefinitionsOf(kb, o.rows))]
                /\ UNCHANGED logged
           ELSE IF Len(searchWords) = 0
           THEN /\ onMessage' = [onMessage EXCEPT ![e] =
                     [t EXCEPT !.pc = "done", !.phase = "keywords",
                               !.batch = << PROVIDE_KEYWORDS >>]]
                /\ sent' = [sent EXCEPT ![e] = @ \o ForEachSend("message", << PROVIDE_KEYWORDS >>)]
                /\ UNCHANGED logged
           ELSE /\ onMessage' = [onMessage EXCEPT ![e] =
                     [t EXCEPT !.pc = "definitionQuery", !.searchWords = searchWords]]
                /\ UNCHANGED << sent, logged >>
  /\ UNCHANGED << variant, kb, inbox, onText >>

\* The callback of db.all(definitionQuery, ...).
DefinitionQueryCallback(e) ==
  /\ onMessage[e].pc = "definitionQuery"
  /\ \E err \in BOOLEAN :
       LET t == onMessage[e]
           definitionRows == DefinitionQueryRows(kb, t.searchWords)
       IN  IF err
           THEN /\ logged' = [logged EXCEPT ![e] = Append(@, "Definition search error")]
                /\ onMessage' = [onMessage EXCEPT ![e] = [t EXCEPT !.pc = "done", !.phase = "error"]]
                /\ UNCHANGED sent
           ELSE IF Len(definitionRows) > 0
           THEN /\ onMessage' = [onMessage EXCEPT ![e] =
                     [t EXCEPT !.pc = "done", !.phase = "definition",
                               !.termMatches = definitionRows,
                               !.batch = DefinitionsOf(kb, definitionRows)]]
                /\ sent' = [sent EXCEPT ![e] = @ \o ForEachSend("message", DefinitionsOf(kb, definitionRows))]
                /\ UNCHANGED logged
           ELSE /\ onMessage' = [onMessage EXCEPT ![e] =
                     [t EXCEPT !.pc = "done", !.phase = "nothing",
                               !.batch = << NO_INFORMATION >>]]
                /\ sent' = [sent EXCEPT ![e] = @ \o ForEachSend("message", << NO_INFORMATION >>)]
                /\ UNCHANGED logged
  /\ UNCHANGED << variant, kb, inbox, onText >>

\* The callback of db.all("SELECT term FROM terms ORDER BY term ASC", ...).
TermsQueryCallback(e) ==
  /\ onText[e].pc = "termsQuery"
  /\ \E err \in BOOLEAN :
       LET text == IF err THEN DB_TROUBLE
                   ELSE WelcomeMessage(inbox[e].first_name, AvailableTopics(kb))
       IN  /\ onText' = [onText EXCEPT ![e] = [@ EXCEPT !.pc = "done", !.batch = << text >>]]
           /\ sent' = [sent EXCEPT ![e] = @ \o ForEachSend("onText", << text >>)]
           /\ logged' = [logged EXCEPT ![e] =
                           IF err THEN Append(@, "Error fetching terms") ELSE @]
  /\ UNCHANGED << variant, kb, inbox, onMessage >>

\* The activation that awaits a call of bot.sendMessage goes on: with its
\* next call when the call resolved, to its end when it rejected.
Resume(t, ok) == IF ok THEN AfterSendResolved(t) ELSE AfterSendRejected(t)

\* Did the step from t to u make a call of bot.sendMessage?
MadeCall(t, u) ==
  u.pc = "awaitSend" /\ (u.i # t.i \/ u.startIndex # t.startIndex)

\* The transport settles call n of event e: the promise of bot.sendMessage
\* resolves (ok) or rejects.  In the revision that awaits its calls, the
\* activation that made the call goes on.
SendSettles(e, n, ok) ==
  /\ n \in 1..Len(sent[e])
  /\ sent[e][n].status = "inflight"
  /\ LET settled == [sent[e] EXCEPT ![n].status = IF ok THEN "ok" ELSE "failed"]
         by == sent[e][n].by
         m == Resume(onMessage[e], ok)
         c == Resume(onText[e], ok)
     IN  IF variant # "safe"
         THEN /\ sent' = [sent EXCEPT ![e] = settled]
              /\ UNCHANGED << onMessage, onText >>
         ELSE IF by = "message"
         THEN /\ onMessage' = [onMessage EXCEPT ![e] = m]
              /\ sent' = [sent EXCEPT ![e] =
                            settled \o (IF MadeCall(onMessage[e], m)
                                        THEN CallsOf("message", m) ELSE << >>)]
              /\ UNCHANGED onText
         ELSE /\ onText' = [onText EXCEPT ![e] = c]
              /\ sent' = [sent EXCEPT ![e] =
                            settled \o (IF MadeCall(onText[e], c)
                                        THEN CallsOf("onText", c) ELSE << >>)]
              /\ UNCHANGED onMessage
  /\ UNCHANGED << variant, kb, inbox, logged >>

(***************************************************************************)
(* Specifications                                                          *)
(***************************************************************************)

\* The process has started with one of the knowledge bases K loaded; no
\* message has arrived yet.
InitOf(K) ==
  /\ variant \in Variants
  /\ kb \in K
  /\ inbox = [e \in Events |-> NoMessage]
  /\ onMessage = [e \in Events |-> IdleOnMessage]
  /\ onText = [e \in Events |-> IdleOnText]
  /\ sent = [e \in Events |-> << >>]
  /\ logged = [e \in Events |-> << >>]

\* The events E arrive with texts of M and are handled side by side.
Step(E, M) ==
  \/ \E e \in E, text \in M, userName \in FirstNames : Deliver(e, text, userName)
  \/ \E e \in E : TermQueryCallback(e)
  \/ \E e \in E : DefinitionQueryCallback(e)
  \/ \E e \in E : TermsQueryCallback(e)
  \/ \E e \in E, n \in 1..(2 * MAX_RESULTS + 8), ok \in BOOLEAN : SendSettles(e, n, ok)

\* One inbound message, any text up to MaxMsgLen, the short knowledge bases.
Init == InitOf(ShortKBs)

Next == Step({1}, Messages)

Spec == Init /\ [][Next]_vars

\* One inbound message, the knowledge base of long definitions.
InitLong == InitOf(LongKBs)

NextLong == Step({1}, LongTexts)

SpecLong == InitLong /\ [][NextLong]_vars

\* The same, the transport settling every call of bot.sendMessage in the
\* end: it resolves, or it rejects (a refusal, a timeout).
SettlesLong == \E e \in {1}, n \in 1..(2 * MAX_RESULTS + 8), ok \in BOOLEAN : SendSettles(e, n, ok)

SpecLongFair == InitLong /\ [][NextLong]_vars /\ WF_vars(SettlesLong)

\* NumEvents inbound messages handled side by side.
InitConcurrent == InitOf({2})

NextConcurrent == Step(Events, ConcurrentTexts)

SpecConcurrent == InitConcurrent /\ [][NextConcurrent]_vars

(***************************************************************************)
(* What the properties speak of                                            *)
(***************************************************************************)

\* Event e is an inbound message that is no command (no "/" in front).
Plain(e) == inbox[e].arrived /\ ~StartsWith(inbox[e].text, "/")

\* The normalized text of event e: trimmed, then lower-cased.
Normalized(e) == ToLowerCase(Trim(inbox[e].text))

\* The terms whose lower-cased form contains the normalized text of e, in
\* knowledge-base iteration order.
ContainingTerms(e) ==
  LET text == Normalized(e)
  IN  SelectSeq([i \in 1..Len(KnowledgeBases[kb]) |-> i],
                LAMBDA i : Includes(KnowledgeBasesLower[kb][i].term, text))

\* The terms the pattern %text% of the SQLite revision matches.
LikeTerms(e) ==
  LET pattern == "%" \o Normalized(e) \o "%"
  IN  { i \in 1..Len(KnowledgeBases[kb]) : Like(KnowledgeBasesLower[kb][i].term, pattern) }

\* The tokens of the normalized text: what is left between the runs of
\* white space once every non-word, non-space character is removed.
Tokens(e) == FilterBoolean(SplitWhitespace(StripNonWord(Normalized(e))))

TokenSet(e) == { Tokens(e)[n] : n \in 1..Len(Tokens(e)) }

\* The number of distinct tokens of e that occur in the definition of term i.
DistinctScore(e, i) ==
  Cardinality({ w \in TokenSet(e) : Includes(KnowledgeBasesLower[kb][i].definition, w) })

RECURSIVE ConcatAll(_)
ConcatAll(texts) ==
  IF Len(texts) = 0 THEN "" ELSE Head(texts) \o ConcatAll(Tail(texts))

IsPrefix(a, b) == Len(a) <= Len(b) /\ SubSeq(b, 1, Len(a)) = a

\* The calls of bot.sendMessage the handler `by' made for payload p of e.
ChunksOf(e, by, p) == SelectSeq(sent[e], LAMBDA c : c.by = by /\ c.payload = p)

\* What was sent of payload p so far: its chunks, end to end.
PayloadSent(e, by, p) ==
  LET chunks == ChunksOf(e, by, p)
  IN  ConcatAll([n \in 1..Len(chunks) |-> chunks[n].text])

\* The number of payloads of which the handler has sent something.
PayloadCount(e, by) ==
  Cardinality({ sent[e][n].payload : n \in { m \in 1..Len(sent[e]) : sent[e][m].by = by } })

\* The replies to e: the payloads bot.on('message') has sent, in order.
Replies(e) ==
  [p \in 1..PayloadCount(e, "message") |-> PayloadSent(e, "message", p)]

\* The definitions of the first MAX_RESULTS of the terms, in their order.
FirstDefinitions(terms) ==
  [j \in 1..Min(MAX_RESULTS, Len(terms)) |-> Definition(kb, terms[j])]

\* bot.on('message') has run to its end for e, no query having failed.
Answered(e) == onMessage[e].pc = "done" /\ logged[e] = << >>

\* bot.on('message') has chosen what to send for e.
Chosen(e) ==
  /\ onMessage[e].pc \in {"awaitSend", "done", "rejected"}
  /\ onMessage[e].phase # "error"

\* rows is a result ORDER BY LENGTH(term) ASC LIMIT 5 allows over the terms S.
ShortestFirst(rows, S) ==
  /\ Len(rows) = Min(MAX_RESULTS, Cardinality(S))
  /\ \A a \in 1..Len(rows) : rows[a] \in S
  /\ \A a, b \in 1..Len(rows) : a < b => rows[a] # rows[b]
  /\ \A a, b \in 1..Len(rows) : a < b => Len(Term(kb, rows[a])) <= Len(Term(kb, rows[b]))
  /\ \A a \in 1..Len(rows) : \A i \in S :
       (\A b \in 1..Len(rows) : rows[b] # i) => Len(Term(kb, rows[a])) <= Len(Term(kb, i))

(***************************************************************************)
(* C1                                                                      *)
(***************************************************************************)

LookupAsStoreReturns(e) ==
  IF variant = "db"
  THEN ShortestFirst(onMessage[e].termMatches, LikeTerms(e))
  ELSE onMessage[e].termMatches = ContainingTerms(e)

LookupNonEmpty(e) ==
  IF variant = "db" THEN LikeTerms(e) # {} ELSE Len(ContainingTerms(e)) > 0

C2_ExactTermAnswered ==
  \A e \in Events : \A i \in 1..Len(KnowledgeBases[kb]) :
    (Plain(e) /\ inbox[e].text = ToLowerCase(Term(kb, i)) /\ Answered(e))
      => /\ Len(Replies(e)) <= MAX_RESULTS
         /\ \E p \in 1..Len(Replies(e)) : Replies(e)[p] = Definition(kb, i)

(***************************************************************************)
(* C3                                                                      *)
(***************************************************************************)

\* C3: a non-command message whose text is empty or only white space is
\* ignored: nothing at all is sent for it.
C3_BlankIgnored ==
  \A e \in Events :
    (Plain(e) /\ Trim(inbox[e].text) = "") => sent[e] = << >>

(***************************************************************************)
(* C4                                                                      *)
(***************************************************************************)

\* C4: when the normalized text is contained in no term and leaves no
\* token, the only reply is the sentence that asks for keywords, and no
\* definition is scored.
C4_NoTokensSentinel ==
  \A e \in Events :
    (Plain(e) /\ Len(ContainingTerms(e)) = 0 /\ Len(Tokens(e)) = 0 /\ Answered(e))
      => /\ Replies(e) = << PROVIDE_KEYWORDS >>
         /\ onMessage[e].definitionMatches = << >>

(***************************************************************************)
(* C5                                                                      *)
(***************************************************************************)

\* C5: when the normalized text is contained in no term, leaves at least
\* one token, and no token occurs in any definition, the only reply is the
\* sentence that says there is no information, which is another sentence
\* than the one that asks for keywords.
C5_NoInformationSentinel ==
  \A e \in Events :
    ( /\ Plain(e) /\ Answered(e)
      /\ Len(ContainingTerms(e)) = 0
      /\ Len(Tokens(e)) > 0
      /\ \A i \in 1..Len(KnowledgeBases[kb]) : DistinctScore(e, i) = 0 )
      => /\ Replies(e) = << NO_INFORMATION >>
         /\ NO_INFORMATION # PROVIDE_KEYWORDS

(***************************************************************************)
(* C6                                                                      *)
(***************************************************************************)

\* C6: in the keyword search the score of a term is the number of distinct
\* tokens of the message that occur in its lower-cased definition, and the
\* terms kept are exactly those of score 1 or more.
C6_DistinctTokenScore ==
  \A e \in Events :
    ( /\ Plain(e) /\ Chosen(e)
      /\ variant # "db"
      /\ onMessage[e].phase \in {"definition", "nothing"} )
      => \A i \in 1..Len(KnowledgeBases[kb]) :
           LET kept == { n \in 1..Len(onMessage[e].definitionMatches) :
                           onMessage[e].definitionMatches[n].keyword = i }
           IN  /\ (DistinctScore(e, i) >= 1) <=> (kept # {})
               /\ \A n \in kept : onMessage[e].definitionMatches[n].score = DistinctScore(e, i)

(***************************************************************************)
(* C7                                                                      *)
(***************************************************************************)

\* The activation of the handler `by' for event e.
Activation(e, by) == IF by = "message" THEN onMessage[e] ELSE onText[e]

Handlers == {"message", "onText"}

\* The number of chunks of a text of length L: L / limit, rounded up.
ChunkCount(L) == (L + MAX_MESSAGE_LENGTH - 1) \div MAX_MESSAGE_LENGTH

\* sendTelegramMessageSafely has returned for payload p of the activation t.
Returned(t, p) == t.pc = "done" \/ (t.pc \in {"awaitSend", "rejected"} /\ t.i > p)

\* What holds of the chunks at every moment: for every payload longer
\* than the limit that is handed to sendTelegramMessageSafely, every chunk
\* sent has at most `limit' code units, the chunks sent so far, end to end
\* in send order, are the beginning of the payload (no overlap, no gap),
\* there are never more than ceil(L / limit) of them, and once the function
\* has returned they are ceil(L / limit) chunks that make up the payload
\* exactly.
ChunksRoundTrip ==
  \A e \in Events : \A by \in Handlers :
    variant = "safe" =>
      \A p \in 1..Len(Activation(e, by).batch) :
        LET text == Activation(e, by).batch[p]
            chunks == ChunksOf(e, by, p)
        IN  Len(text) > MAX_MESSAGE_LENGTH =>
              /\ \A n \in 1..Len(chunks) :
                   /\ Len(chunks[n].text) >= 1
                   /\ Len(chunks[n].text) <= MAX_MESSAGE_LENGTH
              /\ IsPrefix(PayloadSent(e, by, p), text)
              /\ Len(chunks) <= ChunkCount(Len(text))
              /\ Returned(Activation(e, by), p) =>
                   /\ PayloadSent(e, by, p) = text
                   /\ Len(chunks) = ChunkCount(Len(text))

\* sendTelegramMessageSafely is at work on payload p, which is longer than
\* the limit.
Chunking(e, by, p) ==
  /\ variant = "safe"
  /\ Activation(e, by).pc = "awaitSend"
  /\ Activation(e, by).i = p
  /\ Len(Activation(e, by).batch[p]) > MAX_MESSAGE_LENGTH

\* The loop over the chunks of payload p is over: the function has returned
\* or a send has rejected.
LoopOver(e, by, p) ==
  Returned(Activation(e, by), p) \/ Activation(e, by).pc = "rejected"

\* C7: chunking round trip.  At every moment the chunks sent of a payload
\* longer than the limit are pieces of at most `limit' code units that,
\* end to end in send order, are the beginning of the payload, and exactly
\* the payload in ceil(L / limit) chunks once sendTelegramMessageSafely has
\* returned; and the loop over the chunks ends, the transport settling
\* every send.
C7_ChunkingRoundTrip ==
  /\ []ChunksRoundTrip
  /\ \A e \in Events : \A by \in Handlers : \A p \in 1..MAX_RESULTS :
       Chunking(e, by, p) ~> LoopOver(e, by, p)

\* A payload of two full chunks and one code unit more has gone out in
\* three chunks, and sendTelegramMessageSafely has returned.
C7_Witness ==
  \E e \in Events : \E p \in 1..Len(onMessage[e].batch) :
    /\ variant = "safe"
    /\ Len(onMessage[e].batch[p]) = 2 * MAX_MESSAGE_LENGTH + 1
    /\ Returned(onMessage[e], p)
    /\ Len(ChunksOf(e, "message", p)) = 3
    /\ Len(ChunksOf(e, "message", p)[3].text) = 1

(***************************************************************************)
(* C8                                                                      *)
(***************************************************************************)

\* C8: in every reachable state every text handed to bot.sendMessage has
\* at most 4096 code units.
C8_NoSendOverLimit ==
  \A e \in Events : \A n \in 1..Len(sent[e]) :
    Len(sent[e][n].text) <= MAX_MESSAGE_LENGTH

(***************************************************************************)
(* C9                                                                      *)
(***************************************************************************)

\* C9: within the sends of one handler for one inbound message, a send is
\* issued only when every earlier one has completed, and the sends go
\* payload by payload, chunk by chunk, each the piece of the Matcher's
\* result that its place names.
C9_OneSendAtATime ==
  \A e \in Events : \A n \in 1..Len(sent[e]) :
    sent[e][n].by = "message" =>
      /\ \A m \in 1..(n - 1) :
           sent[e][m].by = "message" =>
             /\ sent[e][m].status # "inflight"
             /\ \/ sent[e][m].payload < sent[e][n].payload
                \/ /\ sent[e][m].payload = sent[e][n].payload
                   /\ sent[e][m].offset < sent[e][n].offset
      /\ sent[e][n].payload \in 1..Len(onMessage[e].batch)
      /\ sent[e][n].text =
           SubSeq(onMessage[e].batch[sent[e][n].payload],
                  sent[e][n].offset + 1, sent[e][n].offset + Len(sent[e][n].text))

(***************************************************************************)
(* C10                                                                     *)
(***************************************************************************)

\* C10: when a send of a reply batch has failed and no send of the batch
\* is under way, the handler has not ended with an error and has issued
\* the sends of every later payload of the batch.
C10_FailedSendDoesNotAbort ==
  \A e \in Events : \A n \in 1..Len(sent[e]) :
    ( /\ sent[e][n].by = "message"
      /\ sent[e][n].status = "failed"
      /\ \A m \in 1..Len(sent[e]) :
           sent[e][m].by = "message" => sent[e][m].status # "inflight" )
      => /\ onMessage[e].pc # "rejected"
         /\ \A p \in (sent[e][n].payload + 1)..Len(onMessage[e].batch) :
              ChunksOf(e, "message", p) # << >>

(***************************************************************************)
(* C11                                                                     *)
(***************************************************************************)

\* The help/start handler has sent something for e (the welcome listing,
\* or its apology when the terms cannot be read).
WelcomeSent(e) == \E n \in 1..Len(sent[e]) : sent[e][n].by = "onText"

\* bot.on('message') has sent something for e: a definition or a sentinel.
MatcherReplied(e) == \E n \in 1..Len(sent[e]) : sent[e][n].by = "message"

\* C11: a message for which the help/start handler sends the welcome
\* listing gets no reply of the Matcher, a message that starts with "/"
\* gets no reply of the Matcher, and so no message is answered by both
\* handlers.
C11_WelcomeInsteadOfMatcher ==
  \A e \in Events :
    inbox[e].arrived =>
      /\ WelcomeSent(e) => ~MatcherReplied(e)
      /\ StartsWith(inbox[e].text, "/") => ~MatcherReplied(e)

(***************************************************************************)
(* C12                                                                     *)
(***************************************************************************)

\* The terms of score 1 or more for e, the score being the number of
\* distinct tokens of the message that occur in the definition.
Scoring(e) == { i \in 1..Len(KnowledgeBases[kb]) : DistinctScore(e, i) >= 1 }

\* The number of scoring terms that come before term i in the ranking:
\* those of a higher score, and those of the same score earlier in
\* knowledge-base iteration order.
Rank(e, i) ==
  Cardinality({ j \in Scoring(e) :
                  \/ DistinctScore(e, j) > DistinctScore(e, i)
                  \/ DistinctScore(e, j) = DistinctScore(e, i) /\ j < i })

\* The definitions of the top min(5, n) scoring terms, by score, the terms
\* of one score in knowledge-base iteration order.
TopDefinitions(e) ==
  [r \in 1..Min(MAX_RESULTS, Cardinality(Scoring(e))) |->
     Definition(kb, CHOOSE i \in Scoring(e) : Rank(e, i) = r - 1)]

\* C12: when the keyword search has run for a message and at least one
\* term has score 1 or more, the replies are the definitions of the top
\* min(5, n) scoring terms, highest score first, terms of equal score in
\* knowledge-base iteration order.
C12_RankedByScore ==
  \A e \in Events :
    ( /\ Plain(e) /\ Answered(e)
      /\ onMessage[e].phase \in {"definition", "nothing"}
      /\ Scoring(e) # {} )
      => Replies(e) = TopDefinitions(e)

====
